---- MODULE Spec2Model ----
(***************************************************************************)
(* Early-boot memory subsystem of D3OS: boot memory discovery and boot     *)
(* ordering (src/src/boot.rs, start), the page-table permission walk       *)
(* (setup_paging / setup_page_map) and the NVRAM heap allocator            *)
(* (os/kernel/src/memory/nvram_allocator.rs).                              *)
(* Also the result conversion of the syscall library                       *)
(* (os/library/syscall/src/lib.rs) and the cursor of the framebuffer       *)
(* terminal (src/library/graphic/lfb_terminal.rs).                         *)
(***************************************************************************)
EXTENDS Integers, Sequences, FiniteSets, TLC

(* ---------------------------- bounds ----------------------------------- *)
\* total number of entries over the three memory maps of one boot record
MaxTotalEntries == 3
\* largest page count of one memory-map entry
MaxPages == 1
\* width of an address in bits (usize, scaled down from 64)
AddrBits == 20
\* entries per page table (the walk's 0..512, scaled down)
EntriesPerTable == 2
\* number of non-zero entries in the initial page-table hierarchy
MaxMapped == 2
\* number of page frames of the NVRAM heap
MaxHeapPages == 1
\* number of allocations that are live at the same time
MaxLive == 2
\* largest first and second return value of a system call
MaxCode == 3
MaxVal == 2
\* largest number of character columns and rows of a terminal
MaxColumns == 3
MaxRows == 3
\* width of a screen coordinate in bits (u32, scaled down from 32)
CoordBits == 4

(* ------------------------ program constants ---------------------------- *)
PAGE_SIZE == 4096
MAGIC == 920085129   \* multiboot2::MAGIC, 0x36d76289

AddrSpace == 2 ^ AddrBits
CoordSpace == 2 ^ CoordBits

(* ------------------------------ state ---------------------------------- *)
VARIABLES
    pc,                 \* position in start()
    interrupts,         \* interrupt flag of the CPU
    multiboot2_magic,   \* value of eax read at entry
    panic_msg,          \* message of the panic, "" while there is none
    init_calls,         \* number of calls of kernel::allocator().init
    early_alloc,        \* a step that needs the heap ran before init
    tags,               \* boot record: the sources that are present
    maps,               \* boot record: source -> memory map
    source,             \* branch of the if/else-if chain that was taken
    consulted,          \* sources whose memory map has been read
    exit_calls,         \* number of exit_boot_services calls
    heap_area,          \* index of the current best entry (0: none)
    scan_i,             \* loop index of the scan
    heap_start, heap_end,
    gdt_done, paging_done, heap_initialized,
    cr0, cr0_entry,     \* CR0 flags now / on entry of setup_paging
    cr4_l5,             \* CR4.L5_PAGING
    mem, mem0,          \* page-table memory now / before the walk
    stack,              \* call stack of setup_page_map
    derefd,             \* entries whose frame was followed as a child table
    wrote_protected,    \* some entry write happened with CR0.WP set
    revisited,          \* a table was entered again during a call on it
    heap,               \* NvramAllocator.heap: bottom, size, free holes
    live,               \* allocations handed out and not yet returned
    result,             \* outcome of the last allocator call
    lock,               \* holder of the lock of NvramAllocator.heap
    tpc,                \* per caller: position in its allocator call
    treq,               \* per caller: the call it is executing
    tsnap,              \* per caller: the free list it read under the lock
    bump,               \* bump allocator: bounds, cursor, live count
    bump_live,          \* successful allocations minus deallocations
    conv,               \* arguments and result of the syscall result conversion
    term,               \* Terminal: columns, rows, cursor
    term_out            \* what the last call on the Terminal did

bootvars == <<pc, interrupts, multiboot2_magic, panic_msg, init_calls,
              early_alloc, tags, maps, source, consulted,
              exit_calls, heap_area, scan_i, heap_start, heap_end,
              gdt_done, heap_initialized>>
pagevars == <<paging_done, cr0, cr0_entry, cr4_l5, mem, mem0, stack, derefd,
              wrote_protected, revisited>>
allocvars == <<heap, live, result>>
concvars == <<lock, tpc, treq, tsnap>>
bumpvars == <<bump, bump_live>>
libvars == <<conv, term, term_out>>
vars == <<bootvars, pagevars, allocvars, concvars, bumpvars, libvars>>

(* --------------------- boot memory descriptor reader ------------------- *)
\* the three sources in the order of the if / else-if chain
Sources == <<"efi_bs", "mb2", "efi_mmap">>
SourceSet == {Sources[k] : k \in 1..Len(Sources)}

\* MemoryType::CONVENTIONAL / MemoryAreaType::Available against anything else
Eligible(area) == area.ty = "usable"

Present(s) == s \in tags

\* lines 120, 149, 164, 179: the first source that is present, or None
SelectSourceLowFirst ==
    IF Present("efi_mmap") THEN "efi_mmap"
    ELSE IF Present("mb2") THEN "mb2"
    ELSE IF Present("efi_bs") THEN "efi_bs"
    ELSE "none"
SelectSource ==
    IF Present("efi_bs") THEN "efi_bs"
    ELSE IF Present("mb2") THEN "mb2"
    ELSE IF Present("efi_mmap") THEN "efi_mmap"
    ELSE "none"

\* lines 140, 157, 172: the condition under which the candidate replaces the best
Replaces(area, best) == Eligible(area) /\ area.page_count > best.page_count

\* lines 145, 162, 177
RegionStart(src, area) == area.phys_start

\* lines 146, 163, 178: the end of the region before the width is applied.
\* Multiboot2: end_address() = start + size; EFI: start + pages * 4096 - 1
RegionEndRaw(src, area) ==
    IF src = "mb2" THEN area.phys_start + area.page_count * PAGE_SIZE
    ELSE area.phys_start + area.page_count * PAGE_SIZE - 1

\* pc after each step of lines 183..195
NextPcSpecOrder(p) ==
    CASE p = "region" -> "heap_init"
      [] p = "heap_init" -> "setup_paging"
      [] p = "setup_paging" -> "setup_gdt"
      [] p = "setup_gdt" -> "rest"
NextPcSkipHeapInit(p) ==
    CASE p = "region" -> "setup_gdt"
      [] p = "setup_gdt" -> "setup_paging"
      [] p = "setup_paging" -> "rest"
      [] p = "heap_init" -> "rest"
NextPc(p) ==
    CASE p = "region" -> "setup_gdt"
      [] p = "setup_gdt" -> "setup_paging"
      [] p = "setup_paging" -> "heap_init"
      [] p = "heap_init" -> "rest"

Panic == pc' = "panic"

\* lines 53..68: the handler logs the message of the panic that brought it up
Message(msg) == panic_msg' = IF pc' = "panic" THEN msg ELSE panic_msg

\* lines 56..66: a message with arguments is formatted, which needs the heap
Formatted(msg) == msg = "Unknown framebuffer type [{}]!"

\* lines 205, 206, 235: the panics of the bring-up after heap initialization
RestPanics == {"No framebuffer information provided by bootloader!",
               "Unknown framebuffer type [{}]!",
               "ACPI not available!"}

\* lines 53..70: the message is logged, then loop {}
PanicHandler ==
    /\ pc \in {"panic", "halt"}
    /\ pc' = "halt"
    /\ early_alloc' = (early_alloc \/ (Formatted(panic_msg) /\ ~heap_initialized))
    /\ UNCHANGED <<init_calls, interrupts, multiboot2_magic, panic_msg, tags, maps, source,
                   consulted, exit_calls, heap_area, scan_i, heap_start,
                   heap_end, gdt_done, heap_initialized, pagevars, allocvars,
                   concvars, bumpvars, libvars>>

\* line 110: the magic is not the Multiboot2 signature
BadMagicNever(m) == FALSE
BadMagic(m) == m # MAGIC

\* lines 120, 149, 164, 179..181: where start() goes with the chosen source
AfterSelectNoPanic(src) ==
    CASE src = "none" -> NextPc("region")
      [] src = "efi_bs" -> "efi_exit"
      [] OTHER -> "first"
AfterSelect(src) ==
    CASE src = "none" -> "panic"
      [] src = "efi_bs" -> "efi_exit"
      [] OTHER -> "first"

\* line 84: interrupts::disable() clears the interrupt flag
InterruptsDisableNoop(flag) == flag
InterruptsDisable(flag) == FALSE

\* lines 83..107: interrupts off, registers read, bss cleared, logger set up
Start ==
    /\ pc = "start"
    /\ interrupts' = InterruptsDisable(interrupts)
    /\ \E m \in {MAGIC, 0} : multiboot2_magic' = m
    /\ \E logger_ok \in BOOLEAN :
          pc' = IF logger_ok THEN "check_magic" ELSE "panic"
    /\ Message("Failed to initialize logger!")
    /\ UNCHANGED <<init_calls, early_alloc, tags, maps, source, consulted, exit_calls, heap_area,
                   scan_i, heap_start, heap_end, gdt_done, heap_initialized,
                   pagevars, allocvars, concvars, bumpvars, libvars>>

\* lines 110..112
CheckMagic ==
    /\ pc = "check_magic"
    /\ pc' = IF BadMagic(multiboot2_magic) THEN "panic" ELSE "load"
    /\ Message("Invalid Multiboot2 magic number!")
    /\ UNCHANGED <<init_calls, early_alloc, interrupts, multiboot2_magic, tags, maps, source, consulted,
                   exit_calls, heap_area, scan_i, heap_start, heap_end,
                   gdt_done, heap_initialized, pagevars, allocvars, concvars, bumpvars, libvars>>

\* line 115
Load ==
    /\ pc = "load"
    /\ \E load_ok \in BOOLEAN :
          pc' = IF load_ok THEN "select" ELSE "panic"
    /\ Message("Failed to get Multiboot2 information!")
    /\ UNCHANGED <<init_calls, early_alloc, interrupts, multiboot2_magic, tags, maps, source, consulted,
                   exit_calls, heap_area, scan_i, heap_start, heap_end,
                   gdt_done, heap_initialized, pagevars, allocvars, concvars, bumpvars, libvars>>

\* lines 120, 149, 164, 179..181
Select ==
    /\ pc = "select"
    /\ source' = SelectSource
    /\ pc' = AfterSelect(SelectSource)
    /\ Message("No memory information available!")
    /\ UNCHANGED <<init_calls, early_alloc, interrupts, multiboot2_magic, tags, maps, consulted,
                   exit_calls, heap_area, scan_i, heap_start, heap_end,
                   gdt_done, heap_initialized, pagevars, allocvars, concvars, bumpvars, libvars>>

\* lines 123..135: image handle and system table, then exit_boot_services
ExitBootServices ==
    /\ pc = "efi_exit"
    /\ \E tags_ok \in BOOLEAN :
          IF tags_ok
          THEN /\ exit_calls' = exit_calls + 1
               /\ pc' = "first"
          ELSE /\ Panic
               /\ UNCHANGED exit_calls
    /\ Message("EFI image handle not available!")
    /\ UNCHANGED <<init_calls, early_alloc, interrupts, multiboot2_magic, tags, maps, source, consulted,
                   heap_area, scan_i, heap_start, heap_end,
                   gdt_done, heap_initialized, pagevars, allocvars, concvars, bumpvars, libvars>>

\* lines 138, 153, 168: the first entry of the map is the initial best
First ==
    /\ pc = "first"
    /\ consulted' = consulted \cup {source}
    /\ IF Len(maps[source]) = 0
       THEN Panic /\ UNCHANGED <<heap_area, scan_i>>
       ELSE heap_area' = 1 /\ scan_i' = 1 /\ pc' = "scan"
    /\ Message(IF source = "mb2" THEN "Multiboot2 memory map is empty!"
                                 ELSE "EFI memory map is empty!")
    /\ UNCHANGED <<init_calls, early_alloc, interrupts, multiboot2_magic, tags, maps, source,
                   exit_calls, heap_start, heap_end,
                   gdt_done, heap_initialized, pagevars, allocvars, concvars, bumpvars, libvars>>

\* lines 139..143, 156..160, 171..175: one iteration of the loop
Scan ==
    /\ pc = "scan"
    /\ scan_i <= Len(maps[source])
    /\ heap_area' = IF Replaces(maps[source][scan_i], maps[source][heap_area])
                    THEN scan_i ELSE heap_area
    /\ scan_i' = scan_i + 1
    /\ UNCHANGED <<init_calls, early_alloc, pc, interrupts, multiboot2_magic, panic_msg, tags, maps, source, consulted,
                   exit_calls, heap_start, heap_end,
                   gdt_done, heap_initialized, pagevars, allocvars, concvars, bumpvars, libvars>>

\* lines 145..148, 162..163, 177..178.  A subtraction below zero panics in a
\* build with overflow checks and wraps in one without.
Region ==
    /\ pc = "scan"
    /\ scan_i > Len(maps[source])
    /\ LET area == maps[source][heap_area]
           raw == RegionEndRaw(source, area)
       IN  IF raw < 0
           THEN \/ /\ Panic
                   /\ UNCHANGED <<heap_start, heap_end>>
                \/ /\ heap_start' = RegionStart(source, area)
                   /\ heap_end' = raw % AddrSpace
                   /\ pc' = NextPc("region")
           ELSE /\ heap_start' = RegionStart(source, area)
                /\ heap_end' = raw % AddrSpace
                /\ pc' = NextPc("region")
    /\ Message("attempt to subtract with overflow")
    /\ UNCHANGED <<init_calls, early_alloc, interrupts, multiboot2_magic, tags, maps, source, consulted,
                   exit_calls, heap_area, scan_i,
                   gdt_done, heap_initialized, pagevars, allocvars, concvars, bumpvars, libvars>>

\* lines 186, 324..357
SetupGdt ==
    /\ pc = "setup_gdt"
    /\ gdt_done' = TRUE
    /\ pc' = NextPc("setup_gdt")
    /\ UNCHANGED <<init_calls, early_alloc, interrupts, multiboot2_magic, panic_msg, tags, maps, source, consulted,
                   exit_calls, heap_area, scan_i, heap_start, heap_end,
                   heap_initialized, pagevars, allocvars, concvars, bumpvars, libvars>>

\* line 194
HeapInit ==
    /\ pc = "heap_init"
    /\ heap_initialized' = TRUE
    /\ init_calls' = init_calls + 1
    /\ early_alloc' = (early_alloc \/ ~heap_initialized')
    /\ pc' = NextPc("heap_init")
    /\ UNCHANGED <<interrupts, multiboot2_magic, panic_msg, tags, maps, source, consulted,
                   exit_calls, heap_area, scan_i, heap_start, heap_end,
                   gdt_done, pagevars, allocvars, concvars, bumpvars, libvars>>

(* ------------------ page table permission propagator ------------------- *)
\* A page-table entry is the set of its bits that are 1 (bit numbers 0..63).
PRESENT == 0
WRITABLE == 1
USER_ACCESSIBLE == 2
HUGE_PAGE == 7
NO_EXECUTE == 63

\* the bits PageTableFlags names: 0..11 and 52..63
FlagBits == (0..11) \cup (52..63)
\* the mask 0x000ffffffffff000 of paging_pointer: bits 12..51
FrameBits == 12..51

\* PageTableFlags::from_bits_truncate
FromBitsTruncate(entry) == entry \cap FlagBits

\* lines 387..389
paging_pointer(entry) == entry \cap FrameBits

\* the page tables of the model: frames 0x1000 and 0x2000
Tables == {{12}, {13}}
\* Cr3::read().0.start_address()
Cr3 == {12}

\* lines 375..378: the value written back for a non-zero entry
NewEntryNoInsert(entry) == entry \cup FromBitsTruncate(entry)
NewEntryFlagsOnly(entry) == FromBitsTruncate(entry) \cup {USER_ACCESSIBLE}
NewEntry(entry) ==
    LET flags == FromBitsTruncate(entry) \cup {USER_ACCESSIBLE}
    IN  entry \cup flags

\* line 380: the walk descends through this entry
DescendsAtAnyLevel(entry, level) ==
    HUGE_PAGE \notin (FromBitsTruncate(entry) \cup {USER_ACCESSIBLE})
Descends(entry, level) ==
    level > 1 /\ HUGE_PAGE \notin (FromBitsTruncate(entry) \cup {USER_ACCESSIBLE})

\* Cr0::update(|flags| flags.remove / insert (WRITE_PROTECT))
RemoveWriteProtect(flags) == flags \ {"WRITE_PROTECT"}
InsertWriteProtectKeep(flags) == flags
InsertWriteProtect(flags) == flags \cup {"WRITE_PROTECT"}

\* lines 359..365: write protection off, the walk is entered at the root
SetupPagingEnter ==
    /\ pc = "setup_paging"
    /\ cr0_entry' = cr0
    /\ cr0' = RemoveWriteProtect(cr0)
    /\ stack' = <<[map |-> Cr3, level |-> IF cr4_l5 THEN 5 ELSE 4, i |-> 0]>>
    /\ mem0' = mem
    /\ pc' = "walk"
    /\ UNCHANGED <<init_calls, early_alloc, interrupts, multiboot2_magic, panic_msg, tags, maps, source, consulted,
                   exit_calls, heap_area, scan_i, heap_start, heap_end,
                   gdt_done, heap_initialized,
                   paging_done, cr4_l5, mem, derefd, wrote_protected, revisited,
                   allocvars, concvars, bumpvars, libvars>>

\* lines 372..384: one iteration of the loop of the innermost call
WalkEntry ==
    /\ pc = "walk"
    /\ stack # <<>>
    /\ LET d == Len(stack)
           top == stack[d]
       IN  /\ top.i < EntriesPerTable
           /\ LET entry == mem[top.map][top.i]
                  rest == [stack EXCEPT ![d].i = top.i + 1]
              IN  IF entry # {}
                  THEN /\ mem' = [mem EXCEPT ![top.map][top.i] = NewEntry(entry)]
                       /\ wrote_protected' =
                             (wrote_protected \/ "WRITE_PROTECT" \in cr0)
                       /\ IF Descends(entry, top.level)
                          THEN /\ stack' = Append(rest,
                                      [map |-> paging_pointer(entry),
                                       level |-> top.level - 1, i |-> 0])
                               /\ derefd' = derefd \cup {<<top.map, top.i>>}
                               /\ revisited' =
                                    (revisited \/ \E k \in 1..d :
                                        stack[k].map = paging_pointer(entry))
                          ELSE /\ stack' = rest
                               /\ UNCHANGED <<derefd, revisited>>
                  ELSE /\ stack' = rest
                       /\ UNCHANGED <<mem, wrote_protected, derefd, revisited>>
    /\ UNCHANGED <<bootvars, paging_done, cr0, cr0_entry, cr4_l5, mem0, allocvars, concvars, bumpvars, libvars>>

\* line 385: the loop of the innermost call is over, the call returns
WalkReturn ==
    /\ pc = "walk"
    /\ stack # <<>>
    /\ stack[Len(stack)].i = EntriesPerTable
    /\ stack' = SubSeq(stack, 1, Len(stack) - 1)
    /\ UNCHANGED <<bootvars, paging_done, cr0, cr0_entry, cr4_l5, mem, mem0,
                   derefd, wrote_protected, revisited, allocvars, concvars, bumpvars, libvars>>

\* lines 367..369: write protection on again
SetupPagingExit ==
    /\ pc = "walk"
    /\ stack = <<>>
    /\ cr0' = InsertWriteProtect(cr0)
    /\ paging_done' = TRUE
    /\ pc' = NextPc("setup_paging")
    /\ UNCHANGED <<init_calls, early_alloc, interrupts, multiboot2_magic, panic_msg, tags, maps, source, consulted,
                   exit_calls, heap_area, scan_i, heap_start, heap_end,
                   gdt_done, heap_initialized,
                   cr0_entry, cr4_l5, mem, mem0, stack, derefd,
                   wrote_protected, revisited, allocvars, concvars, bumpvars, libvars>>

\* lines 197..312: the rest of the bring-up
Rest ==
    /\ pc = "rest"
    /\ \E ok \in BOOLEAN :
          IF ok THEN pc' = "done" /\ interrupts' = TRUE
                ELSE Panic /\ UNCHANGED interrupts
    /\ \E msg \in RestPanics : Message(msg)
    /\ early_alloc' = (early_alloc \/ ~heap_initialized)
    /\ UNCHANGED <<init_calls, multiboot2_magic, tags, maps, source, consulted,
                   exit_calls, heap_area, scan_i, heap_start, heap_end,
                   gdt_done, heap_initialized, pagevars, allocvars, concvars, bumpvars, libvars>>

(* --------------------------- NvramAllocator ---------------------------- *)
\* size_of::<Hole>() and align_of::<Hole>() of the free list's node
HOLE_MIN_SIZE == 16
HOLE_ALIGN == 8

align_up(addr, align) == ((addr + align - 1) \div align) * align

\* Layout::dangling(): the alignment itself, taken as an address
DanglingOne(layout) == 1
Dangling(layout) == layout.align

\* a heap without memory: LockedHeap::empty()
EmptyHeapMapped ==
    [bottom |-> 0, size |-> 0,
     holes |-> <<[addr |-> PAGE_SIZE, size |-> PAGE_SIZE]>>]
EmptyHeap == [bottom |-> 0, size |-> 0, holes |-> <<>>]

\* Heap::init: one hole over the whole range
InitHeap(bottom, size) ==
    [bottom |-> bottom, size |-> size,
     holes |-> <<[addr |-> bottom, size |-> size]>>]

\* the size the free list reserves for a request of this size
HoleSize(size) ==
    align_up(IF size < HOLE_MIN_SIZE THEN HOLE_MIN_SIZE ELSE size, HOLE_ALIGN)

\* where a request would start in this hole: at its start when that is
\* aligned, else behind room for a hole node
AlignedAddr(hole, align) ==
    IF hole.addr = align_up(hole.addr, align) THEN hole.addr
    ELSE align_up(hole.addr + HOLE_MIN_SIZE, align)

\* the request fits this hole: what is left behind it is nothing or a hole
Fits(hole, size, align) ==
    LET a == AlignedAddr(hole, align)
        hole_end == hole.addr + hole.size
        alloc_end == a + HoleSize(size)
    IN  /\ hole.size >= HoleSize(size)
        /\ alloc_end <= hole_end
        /\ (alloc_end = hole_end
            \/ align_up(alloc_end, HOLE_ALIGN) + HOLE_MIN_SIZE <= hole_end)

\* the parts of the hole that stay free when the request is cut out of it
Split(hole, size, align) ==
    LET a == AlignedAddr(hole, align)
        hole_end == hole.addr + hole.size
        alloc_end == a + HoleSize(size)
        front == IF a = hole.addr THEN <<>>
                 ELSE <<[addr |-> hole.addr, size |-> a - hole.addr]>>
        back == IF alloc_end = hole_end THEN <<>>
                ELSE <<[addr |-> alloc_end, size |-> hole_end - alloc_end]>>
    IN  front \o back

\* index of the first hole, in address order, that the request fits; 0: none
FirstFit(holes, size, align) ==
    IF \E k \in 1..Len(holes) : Fits(holes[k], size, align)
    THEN CHOOSE k \in 1..Len(holes) :
            /\ Fits(holes[k], size, align)
            /\ \A j \in 1..(k - 1) : ~Fits(holes[j], size, align)
    ELSE 0

\* the free list after the request was cut out of hole k
TakeFrom(holes, k, size, align) ==
    SubSeq(holes, 1, k - 1) \o Split(holes[k], size, align)
        \o SubSeq(holes, k + 1, Len(holes))

\* free list with adjacent holes merged
RECURSIVE Coalesce(_)
Coalesce(holes) ==
    IF Len(holes) < 2 THEN holes
    ELSE IF holes[1].addr + holes[1].size = holes[2].addr
         THEN Coalesce(<<[addr |-> holes[1].addr,
                          size |-> holes[1].size + holes[2].size]>>
                       \o SubSeq(holes, 3, Len(holes)))
         ELSE <<holes[1]>> \o Coalesce(Tail(holes))

\* Heap::deallocate: the block goes back at its place in address order
GiveBack(holes, ptr, size) ==
    LET before == SelectSeq(holes, LAMBDA h : h.addr < ptr)
        after == SelectSeq(holes, LAMBDA h : h.addr > ptr)
    IN  Coalesce(before \o <<[addr |-> ptr, size |-> HoleSize(size)]>> \o after)

\* requests of the model
ReqSizes == {0, 1, 2048}
ReqAligns == {1, 64}
Layouts == [size : ReqSizes, align : ReqAligns]

\* lines 24..29
NvInit ==
    /\ heap = EmptyHeap
    /\ \E pages \in 1..MaxHeapPages :
          heap' = InitHeap(PAGE_SIZE, pages * PAGE_SIZE)
    /\ result' = [op |-> "init"]
    /\ UNCHANGED <<bootvars, pagevars, live, concvars, bumpvars, libvars>>

\* lines 35 and 51: the request is for no memory at all
ZeroSizeNever(layout) == FALSE
ZeroSizeOrOne(layout) == layout.size <= 1
ZeroSize(layout) == layout.size = 0

\* line 43: the length of the slice handed back
SliceLenReserved(layout) == HoleSize(layout.size)
SliceLen(layout) == layout.size

\* Heap::allocate_first_fit: the outcome and the free list after it
AllocateFirstFitLossy(h, layout) ==
    LET k == FirstFit(h.holes, layout.size, layout.align)
    IN  IF k = 0
        THEN [ok |-> FALSE, ptr |-> 0, holes |-> <<>>]
        ELSE [ok |-> TRUE, ptr |-> AlignedAddr(h.holes[k], layout.align),
              holes |-> TakeFrom(h.holes, k, layout.size, layout.align)]
AllocateFirstFit(h, layout) ==
    LET k == FirstFit(h.holes, layout.size, layout.align)
    IN  IF k = 0
        THEN [ok |-> FALSE, ptr |-> 0, holes |-> h.holes]
        ELSE [ok |-> TRUE, ptr |-> AlignedAddr(h.holes[k], layout.align),
              holes |-> TakeFrom(h.holes, k, layout.size, layout.align)]

\* the allocations that occupy heap memory
Occupying(l) == {a \in l : a.layout.size # 0}

\* lines 33..47; at most MaxLive blocks of the heap are handed out at a time
NvAllocate ==
    /\ \E layout \in Layouts :
          IF ZeroSize(layout)
          THEN /\ result' = [op |-> "allocate", layout |-> layout, ok |-> TRUE,
                             ptr |-> Dangling(layout), len |-> 0]
               /\ live' = live \cup
                     {[ptr |-> Dangling(layout), layout |-> layout]}
               /\ UNCHANGED heap
          ELSE LET r == AllocateFirstFit(heap, layout)
               IN  IF ~r.ok
                   THEN /\ result' = [op |-> "allocate", layout |-> layout,
                                      ok |-> FALSE, ptr |-> 0, len |-> 0]
                        /\ heap' = [heap EXCEPT !.holes = r.holes]
                        /\ UNCHANGED live
                   ELSE /\ Cardinality(Occupying(live)) < MaxLive
                        /\ result' = [op |-> "allocate", layout |-> layout,
                                      ok |-> TRUE, ptr |-> r.ptr,
                                      len |-> SliceLen(layout)]
                        /\ heap' = [heap EXCEPT !.holes = r.holes]
                        /\ live' = live \cup
                              {[ptr |-> r.ptr, layout |-> layout]}
    /\ UNCHANGED <<bootvars, pagevars, concvars, bumpvars, libvars>>

\* lines 49..55, called with a block that allocate handed out
NvDeallocate ==
    /\ \E a \in live :
          /\ live' = live \ {a}
          /\ result' = [op |-> "deallocate", layout |-> a.layout, ptr |-> a.ptr]
          /\ IF ~ZeroSize(a.layout)
             THEN heap' = [heap EXCEPT !.holes =
                               GiveBack(heap.holes, a.ptr, a.layout.size)]
             ELSE UNCHANGED heap
    /\ UNCHANGED <<bootvars, pagevars, concvars, bumpvars, libvars>>

(* ------------- NvramAllocator under concurrent callers ----------------- *)
\* two threads on different cores and an interrupt handler on the core of t1
Procs == {"t1", "t2", "irq"}
NoReq == [op |-> "none"]

\* while the handler runs, the thread it interrupted does not
Runnable(p) == p = "t1" => tpc["irq"] = "idle"

\* lines 25, 40, 52: self.heap.lock() gets through when nobody holds the lock
LockFreeAlways(l) == TRUE
LockFree(l) == l = "free"

\* the positions at which a caller works on the heap
InCritical == {"cs_read", "cs_write", "unlock"}

ConcLayouts == {l \in Layouts : l.size \in {0, 1} /\ l.align = 1}

\* calls that are past their entry and will hand out a block
InFlight == {p \in Procs : treq[p].op = "allocate"}

\* line 24: init is entered
CallInit ==
    /\ tpc["t1"] = "idle"
    /\ Runnable("t1")
    /\ heap = EmptyHeap
    /\ \E pages \in 1..MaxHeapPages :
          treq' = [treq EXCEPT !["t1"] = [op |-> "init", pages |-> pages]]
    /\ tpc' = [tpc EXCEPT !["t1"] = "lock"]
    /\ UNCHANGED <<bootvars, pagevars, allocvars, lock, tsnap, bumpvars, libvars>>

\* lines 33..38: allocate is entered; a zero-size request returns at once
CallAllocate ==
    \E p \in Procs : \E layout \in ConcLayouts :
        /\ tpc[p] = "idle"
        /\ Runnable(p)
        /\ IF ZeroSize(layout)
           THEN /\ live' = live \cup
                      {[ptr |-> Dangling(layout), layout |-> layout]}
                /\ UNCHANGED <<tpc, treq>>
           ELSE /\ Cardinality(Occupying(live)) + Cardinality(InFlight) < MaxLive
                /\ treq' = [treq EXCEPT ![p] =
                               [op |-> "allocate", layout |-> layout]]
                /\ tpc' = [tpc EXCEPT ![p] = "lock"]
                /\ UNCHANGED live
        /\ UNCHANGED <<bootvars, pagevars, heap, result, lock, tsnap, bumpvars, libvars>>

\* lines 49..51: deallocate is entered with a block that was handed out
CallDeallocate ==
    \E p \in Procs : \E a \in live :
        /\ tpc[p] = "idle"
        /\ Runnable(p)
        /\ live' = live \ {a}
        /\ IF ZeroSize(a.layout)
           THEN UNCHANGED <<tpc, treq>>
           ELSE /\ treq' = [treq EXCEPT ![p] =
                               [op |-> "deallocate", layout |-> a.layout,
                                ptr |-> a.ptr]]
                /\ tpc' = [tpc EXCEPT ![p] = "lock"]
        /\ UNCHANGED <<bootvars, pagevars, heap, result, lock, tsnap, bumpvars, libvars>>

\* lines 25, 40, 52: the spin on the lock ends
Acquire ==
    \E p \in Procs :
        /\ tpc[p] = "lock"
        /\ Runnable(p)
        /\ LockFree(lock)
        /\ lock' = p
        /\ tpc' = [tpc EXCEPT ![p] = "cs_read"]
        /\ UNCHANGED <<bootvars, pagevars, allocvars, treq, tsnap, bumpvars, libvars>>

\* lines 27, 40, 53: the call reads the heap
CsRead ==
    \E p \in Procs :
        /\ tpc[p] = "cs_read"
        /\ Runnable(p)
        /\ tsnap' = [tsnap EXCEPT ![p] = heap]
        /\ tpc' = [tpc EXCEPT ![p] = "cs_write"]
        /\ UNCHANGED <<bootvars, pagevars, allocvars, lock, treq, bumpvars, libvars>>

\* lines 27, 40..46, 53: the call writes the heap it computed from what it read
CsWrite ==
    \E p \in Procs :
        /\ tpc[p] = "cs_write"
        /\ Runnable(p)
        /\ LET req == treq[p]
               h == tsnap[p]
           IN  CASE req.op = "init" ->
                      /\ heap' = InitHeap(PAGE_SIZE, req.pages * PAGE_SIZE)
                      /\ UNCHANGED live
                 [] req.op = "allocate" ->
                      LET r == AllocateFirstFit(h, req.layout)
                      IN  /\ heap' = [h EXCEPT !.holes = r.holes]
                          /\ live' = IF r.ok
                                     THEN live \cup {[ptr |-> r.ptr,
                                                      layout |-> req.layout]}
                                     ELSE live
                 [] req.op = "deallocate" ->
                      /\ heap' = [h EXCEPT !.holes =
                                     GiveBack(h.holes, req.ptr, req.layout.size)]
                      /\ UNCHANGED live
        /\ tpc' = [tpc EXCEPT ![p] = "unlock"]
        /\ UNCHANGED <<bootvars, pagevars, result, lock, treq, tsnap, bumpvars, libvars>>

\* lines 29, 46, 55: the guard goes out of scope
Release ==
    \E p \in Procs :
        /\ tpc[p] = "unlock"
        /\ Runnable(p)
        /\ lock' = "free"
        /\ tpc' = [tpc EXCEPT ![p] = "idle"]
        /\ treq' = [treq EXCEPT ![p] = NoReq]
        /\ tsnap' = [tsnap EXCEPT ![p] = EmptyHeap]
        /\ UNCHANGED <<bootvars, pagevars, allocvars, bumpvars, libvars>>

(* -------------------------- bump allocator ----------------------------- *)
\* the allocator before init
EmptyBump == [heap_start |-> 0, heap_end |-> 0, next |-> 0, allocations |-> 0,
              panicked |-> FALSE]

\* init(heap_start, heap_size)
BumpInit ==
    /\ bump = EmptyBump
    /\ \E pages \in 1..MaxHeapPages :
          bump' = [bump EXCEPT !.heap_start = PAGE_SIZE,
                               !.heap_end = PAGE_SIZE + pages * PAGE_SIZE,
                               !.next = PAGE_SIZE]
    /\ UNCHANGED <<bootvars, pagevars, allocvars, concvars, bump_live, libvars>>

\* allocate(size, alignment): the cursor is rounded up and advanced
BumpAllocate ==
    /\ ~bump.panicked
    /\ bump_live < MaxLive
    /\ \E layout \in Layouts :
          LET alloc_start == align_up(bump.next, layout.align)
              alloc_end == alloc_start + layout.size
          IN  IF layout.size = 0 \/ alloc_end >= AddrSpace
                 \/ alloc_end > bump.heap_end
              THEN UNCHANGED <<bump, bump_live>>
              ELSE /\ bump' = [bump EXCEPT !.next = alloc_end,
                                  !.allocations = (@ + 1) % AddrSpace]
                   /\ bump_live' = bump_live + 1
    /\ UNCHANGED <<bootvars, pagevars, allocvars, concvars, libvars>>

\* deallocate(address, size): the live count goes down, at zero the cursor is
\* reset.  Below zero the subtraction panics in a build with overflow checks
\* and wraps in one without.
BumpDeallocate ==
    /\ ~bump.panicked
    /\ bump_live > -MaxLive
    /\ LET n == (bump.allocations - 1) % AddrSpace
           done == [bump EXCEPT !.allocations = n,
                                !.next = IF n = 0 THEN bump.heap_start ELSE @]
       IN  IF bump.allocations = 0
           THEN \/ /\ bump' = [bump EXCEPT !.panicked = TRUE]
                   /\ UNCHANGED bump_live
                \/ /\ bump' = done
                   /\ bump_live' = bump_live - 1
           ELSE /\ bump' = done
                /\ bump_live' = bump_live - 1
    /\ UNCHANGED <<bootvars, pagevars, allocvars, concvars, libvars>>

(* ------------------- syscall library: result conversion ---------------- *)
\* the closures a caller passes for is_ok_f, ok_f and err_f
IsOkFs == {"code_is_zero", "val_is_not_zero", "always", "never"}
OkFs == {"val", "code_plus_val"}
ErrFs == {"code", "val_plus_one"}

IsOkF(f, code, val) ==
    CASE f = "code_is_zero" -> code = 0
      [] f = "val_is_not_zero" -> val # 0
      [] f = "always" -> TRUE
      [] f = "never" -> FALSE

OkF(f, code, val) == IF f = "val" THEN val ELSE code + val

ErrF(f, code, val) == IF f = "code" THEN code ELSE val + 1

NoResult == [tag |-> "none", value |-> 0, applied |-> {}]

\* lines 51..68
convert_syscall_codes_to_result(code, val, is_ok_f, ok_f, err_f) ==
    IF IsOkF(is_ok_f, code, val)
    THEN [tag |-> "Err", value |-> ErrF(err_f, code, val), applied |-> {"err_f"}]
    ELSE [tag |-> "Ok", value |-> OkF(ok_f, code, val), applied |-> {"ok_f"}]

\* the call of convert_syscall_codes_to_result with the arguments at hand
Convert ==
    /\ conv.result = NoResult
    /\ conv' = [conv EXCEPT !.result =
                   convert_syscall_codes_to_result(conv.code, conv.val,
                       conv.is_ok_f, conv.ok_f, conv.err_f)]
    /\ UNCHANGED <<bootvars, pagevars, allocvars, concvars, bumpvars,
                   term, term_out>>

(* ------------------------------ Terminal ------------------------------- *)
\* lfb::CHAR_WIDTH and lfb::CHAR_HEIGHT, in units of the scaled coordinates
CHAR_WIDTH == 2
CHAR_HEIGHT == 2

NEWLINE == "\n"
Chars == {NEWLINE, "a"}

\* lines 27..29: Terminal::empty()
EmptyTerminal == [columns |-> 0, rows |-> 0, x |-> 0, y |-> 0,
                  panicked |-> FALSE]

\* lines 30..41: Terminal::new, columns = width / CHAR_WIDTH and
\* rows = height / CHAR_HEIGHT
TerminalNew ==
    /\ term_out.op = "empty"
    /\ \E columns \in 0..MaxColumns, rows \in 0..MaxRows :
          term' = [EmptyTerminal EXCEPT !.columns = columns, !.rows = rows]
    /\ term_out' = [op |-> "new"]
    /\ UNCHANGED <<bootvars, pagevars, allocvars, concvars, bumpvars, conv>>

\* line 63: the row the cursor is put on after a scroll
LastRowPastEnd(rows) == rows
LastRow(rows) == rows - 1

\* lines 43..69: the cursor after print_char(c), drawn being what draw_char
\* returned for c; overflow says that one of the u32 operations left the
\* range of u32
print_char(t, c, drawn) ==
    LET S == CoordSpace
        y1 == IF c = NEWLINE THEN t.y + 1 ELSE t.y
        x1 == IF c = NEWLINE THEN 0 ELSE IF drawn THEN t.x + 1 ELSE t.x
        wraps == x1 % S >= t.columns
        y2 == IF wraps THEN (y1 % S) + 1 ELSE y1 % S
        x2 == IF wraps THEN 0 ELSE x1 % S
        scroll == y2 % S >= t.rows
        y3 == IF scroll THEN LastRow(t.rows) ELSE y2 % S
        x3 == IF scroll THEN 0 ELSE x2
    IN  [x |-> x3,
         y |-> y3 % S,
         scroll |-> IF scroll THEN CHAR_HEIGHT ELSE 0,
         overflow |-> \/ t.x * CHAR_WIDTH >= S
                      \/ t.y * CHAR_HEIGHT >= S
                      \/ y1 >= S
                      \/ x1 >= S
                      \/ y2 >= S
                      \/ y3 < 0
                      \/ x3 * CHAR_WIDTH >= S
                      \/ (y3 % S) * CHAR_HEIGHT >= S]

\* lines 43..69.  An operation that leaves the range of u32 panics in a build
\* with overflow checks and wraps in one without.
PrintChar ==
    /\ ~term.panicked
    /\ \E c \in Chars, drawn \in BOOLEAN :
          LET r == print_char(term, c, drawn)
              done == /\ term' = [term EXCEPT !.x = r.x, !.y = r.y]
                      /\ term_out' = [op |-> "print_char", c |-> c,
                                      drawn |-> (c # NEWLINE /\ drawn),
                                      scroll |-> r.scroll]
          IN  IF r.overflow
              THEN \/ /\ term' = [term EXCEPT !.panicked = TRUE]
                      /\ term_out' = [op |-> "panic"]
                   \/ done
              ELSE done
    /\ UNCHANGED <<bootvars, pagevars, allocvars, concvars, bumpvars, conv>>

(* ------------------------- initial states ------------------------------ *)
\* a memory map laid out without gaps from address base
RECURSIVE PagesBefore(_, _)
PagesBefore(shape, k) ==
    IF k = 0 THEN 0 ELSE shape[k].page_count + PagesBefore(shape, k - 1)

MkMap(shape, base) ==
    [k \in 1..Len(shape) |->
        [ty |-> shape[k].ty, page_count |-> shape[k].page_count,
         phys_start |-> base + PAGE_SIZE * PagesBefore(shape, k - 1)]]

EntryShapes == [ty : {"usable", "other"}, page_count : 0..MaxPages]

Max0(n) == IF n < 0 THEN 0 ELSE n

\* the memory maps of length n; n = -1 stands for a source that is absent
MapsOfLen(n, base) ==
    {MkMap(shape, base) : shape \in [1..Max0(n) -> EntryShapes]}

\* the identity-mapped hierarchy a boot is checked with
BootMem ==
    [t \in Tables |-> [i \in 0..(EntriesPerTable - 1) |->
        IF t = Cr3 /\ i = 0 THEN {PRESENT, WRITABLE, 13} ELSE
        IF t = {13} /\ i = 0 THEN {PRESENT, HUGE_PAGE, 12} ELSE {}]]

InitPagingIdle ==
    /\ paging_done = FALSE
    /\ cr0_entry = {}
    /\ stack = <<>>
    /\ derefd = {}
    /\ wrote_protected = FALSE
    /\ revisited = FALSE

\* lines 17..22: NvramAllocator::new()
InitAllocIdle ==
    /\ heap = EmptyHeap
    /\ live = {}
    /\ result = [op |-> "new"]

InitConcIdle ==
    /\ lock = "free"
    /\ tpc = [p \in Procs |-> "idle"]
    /\ treq = [p \in Procs |-> NoReq]
    /\ tsnap = [p \in Procs |-> EmptyHeap]

InitBumpIdle ==
    /\ bump = EmptyBump
    /\ bump_live = 0

InitLibIdle ==
    /\ conv = [code |-> 0, val |-> 0, is_ok_f |-> "always", ok_f |-> "val",
               err_f |-> "code", result |-> NoResult]
    /\ term = EmptyTerminal
    /\ term_out = [op |-> "empty"]

InitBootIdle ==
    /\ interrupts = TRUE
    /\ multiboot2_magic = 0
    /\ panic_msg = ""
    /\ init_calls = 0
    /\ early_alloc = FALSE
    /\ source = "none"
    /\ consulted = {}
    /\ exit_calls = 0
    /\ heap_area = 0
    /\ scan_i = 0
    /\ heap_start = 0
    /\ heap_end = 0
    /\ gdt_done = FALSE
    /\ heap_initialized = FALSE

Init ==
    /\ pc = "start"
    /\ InitBootIdle
    /\ \E base \in {0, PAGE_SIZE} :
       \E n1, n2, n3 \in -1..MaxTotalEntries :
          /\ Max0(n1) + Max0(n2) + Max0(n3) <= MaxTotalEntries
          /\ \E m1 \in MapsOfLen(n1, base), m2 \in MapsOfLen(n2, base),
                m3 \in MapsOfLen(n3, base) :
                /\ maps = [s \in SourceSet |->
                             CASE s = "efi_bs" -> m1
                               [] s = "mb2" -> m2
                               [] s = "efi_mmap" -> m3]
                /\ tags = {s \in SourceSet :
                             CASE s = "efi_bs" -> n1 >= 0
                               [] s = "mb2" -> n2 >= 0
                               [] s = "efi_mmap" -> n3 >= 0}
    /\ InitPagingIdle
    /\ cr0 = {"PAGING", "WRITE_PROTECT"}
    /\ cr4_l5 = FALSE
    /\ mem = BootMem
    /\ mem0 = BootMem
    /\ InitAllocIdle
    /\ InitConcIdle
    /\ InitBumpIdle
    /\ InitLibIdle

Next ==
    \/ Start
    \/ CheckMagic
    \/ Load
    \/ Select
    \/ ExitBootServices
    \/ First
    \/ Scan
    \/ Region
    \/ SetupGdt
    \/ SetupPagingEnter
    \/ WalkEntry
    \/ WalkReturn
    \/ SetupPagingExit
    \/ HeapInit
    \/ Rest
    \/ PanicHandler

Spec == Init /\ [][Next]_vars

\* page-table contents: at most MaxMapped entries are non-zero
EntryFlagChoices == {{PRESENT}, {PRESENT, HUGE_PAGE}, {WRITABLE},
                     {PRESENT, WRITABLE, NO_EXECUTE}}
EntryValues == {fl \cup t : fl \in EntryFlagChoices, t \in Tables}
Slots == Tables \X (0..(EntriesPerTable - 1))

InitPaging ==
    /\ pc = "setup_paging"
    /\ InitBootIdle
    /\ tags = {}
    /\ maps = [s \in SourceSet |-> <<>>]
    /\ InitPagingIdle
    /\ cr0 \in {{"PAGING"}, {"PAGING", "WRITE_PROTECT"}}
    /\ cr4_l5 \in BOOLEAN
    /\ \E used \in SUBSET Slots :
          /\ Cardinality(used) <= MaxMapped
          /\ \E val \in [used -> EntryValues] :
                mem = [t \in Tables |-> [i \in 0..(EntriesPerTable - 1) |->
                          IF <<t, i>> \in used THEN val[<<t, i>>] ELSE {}]]
    /\ mem0 = mem
    /\ InitAllocIdle
    /\ InitConcIdle
    /\ InitBumpIdle
    /\ InitLibIdle

NextPaging ==
    \/ SetupPagingEnter
    \/ WalkEntry
    \/ WalkReturn
    \/ SetupPagingExit

SpecPaging == InitPaging /\ [][NextPaging]_vars

\* the hierarchies of InitPaging without the bits that have no part in the
\* course of the walk: write protection on at entry, no NO_EXECUTE entries
InitPagingLive ==
    /\ InitPaging
    /\ "WRITE_PROTECT" \in cr0
    /\ \A t \in Tables : \A i \in 0..(EntriesPerTable - 1) :
          NO_EXECUTE \notin mem[t][i]

\* start() is the only thread and interrupts are off: the walk keeps running
SpecPagingLive == InitPagingLive /\ [][NextPaging]_vars /\ WF_vars(NextPaging)

InitAlloc ==
    /\ pc = "done"
    /\ InitBootIdle
    /\ tags = {}
    /\ maps = [s \in SourceSet |-> <<>>]
    /\ InitPagingIdle
    /\ cr0 = {"PAGING", "WRITE_PROTECT"}
    /\ cr4_l5 = FALSE
    /\ mem = BootMem
    /\ mem0 = BootMem
    /\ InitAllocIdle
    /\ InitConcIdle
    /\ InitBumpIdle
    /\ InitLibIdle

NextAlloc ==
    \/ NvInit
    \/ NvAllocate
    \/ NvDeallocate

SpecAlloc == InitAlloc /\ [][NextAlloc]_vars

NextConc ==
    \/ CallInit
    \/ CallAllocate
    \/ CallDeallocate
    \/ Acquire
    \/ CsRead
    \/ CsWrite
    \/ Release

SpecConc == InitAlloc /\ [][NextConc]_vars

NextBump ==
    \/ BumpInit
    \/ BumpAllocate
    \/ BumpDeallocate

SpecBump == InitAlloc /\ [][NextBump]_vars

\* the state before a conversion: the arguments are any the caller can pass
InitSyscall ==
    /\ pc = "done"
    /\ InitBootIdle
    /\ tags = {}
    /\ maps = [s \in SourceSet |-> <<>>]
    /\ InitPagingIdle
    /\ cr0 = {"PAGING", "WRITE_PROTECT"}
    /\ cr4_l5 = FALSE
    /\ mem = BootMem
    /\ mem0 = BootMem
    /\ InitAllocIdle
    /\ InitConcIdle
    /\ InitBumpIdle
    /\ term = EmptyTerminal
    /\ term_out = [op |-> "empty"]
    /\ conv \in [code : 0..MaxCode, val : 0..MaxVal, is_ok_f : IsOkFs,
                 ok_f : OkFs, err_f : ErrFs, result : {NoResult}]

NextSyscall == Convert

SpecSyscall == InitSyscall /\ [][NextSyscall]_vars

NextTerminal ==
    \/ TerminalNew
    \/ PrintChar

SpecTerminal == InitAlloc /\ [][NextTerminal]_vars

(* ------------------------------ claims --------------------------------- *)
\* heap_start / heap_end have been produced
Discovered ==
    pc \in {"setup_gdt", "setup_paging", "walk", "heap_init", "rest", "done"}

ChosenMap == maps[source]
Chosen == ChosenMap[heap_area]
EligibleIdx == {k \in 1..Len(ChosenMap) : Eligible(ChosenMap[k])}

\* C1: the region handed to the heap is an entry of the eligible type and no
\* eligible entry of the consulted map is strictly larger than it.
C1_LargestEligibleChosen ==
    Discovered =>
        /\ Eligible(Chosen)
        /\ \A k \in EligibleIdx : ChosenMap[k].page_count <= Chosen.page_count

\* the first source, in the order of Sources, whose tag is present
FirstPresent ==
    Sources[CHOOSE k \in 1..Len(Sources) :
        /\ Sources[k] \in tags
        /\ \A j \in 1..(k - 1) : Sources[j] \notin tags]

\* C2: exactly one memory-map source is consulted, the first present one in
\* the order EFI boot services / Multiboot2 map / EFI map; it alone determines
\* heap_start and heap_end; exit_boot_services runs only in the first case and
\* at most once.
C2_SourcePriority ==
    /\ exit_calls <= 1
    /\ exit_calls = 1 => "efi_bs" \in tags /\ source = "efi_bs"
    /\ Cardinality(consulted) <= 1
    /\ consulted # {} => consulted = {FirstPresent}
    /\ Discovered =>
          /\ source = FirstPresent
          /\ consulted = {FirstPresent}
          /\ (exit_calls = 1) = (FirstPresent = "efi_bs")
          /\ \E k \in 1..Len(maps[FirstPresent]) :
                /\ heap_start = maps[FirstPresent][k].phys_start
                /\ heap_end =
                      RegionEndRaw(FirstPresent, maps[FirstPresent][k]) % AddrSpace

C2_Witness ==
    /\ pc = "done"
    /\ tags = SourceSet
    /\ \A s \in SourceSet : Len(maps[s]) = 1
    /\ maps["efi_bs"][1].page_count # maps["mb2"][1].page_count
    /\ exit_calls = 1

\* the largest page count among the eligible entries of the consulted map
MaxEligible ==
    CHOOSE n \in 0..MaxPages + 1 :
        /\ \E k \in EligibleIdx : ChosenMap[k].page_count = n
        /\ \A k \in EligibleIdx : ChosenMap[k].page_count <= n

\* C3: during the scan a candidate replaces the current best only when its
\* page count is strictly greater, and among the eligible entries of maximal
\* size the first one of the map is the one selected.
C3_TieBreak ==
    /\ [][(pc = "scan" /\ heap_area' # heap_area)
             => ChosenMap[heap_area'].page_count > Chosen.page_count]_vars
    /\ [](Discovered /\ EligibleIdx # {} =>
             /\ heap_area \in EligibleIdx
             /\ Chosen.page_count = MaxEligible
             /\ \A k \in EligibleIdx :
                   ChosenMap[k].page_count = MaxEligible => heap_area <= k)

\* C4: the region produced by the reader satisfies start <= end.
C4_RegionOrdered == Discovered => heap_start <= heap_end

\* C5 as the specification states it: the heap is initialized before the
\* page-table propagation runs, descriptor-table setup comes after both.
C5_OrderAsSpecified ==
    /\ (pc = "walk" \/ paging_done) => heap_initialized
    /\ gdt_done => (paging_done /\ heap_initialized)

\* C5 as amended: descriptor-table setup is complete before the page-table
\* propagation starts, and the propagation is complete before the heap is
\* initialized.
C5_OrderAsCoded ==
    /\ (pc = "walk" \/ paging_done) => gdt_done
    /\ heap_initialized => (paging_done /\ gdt_done)
    /\ (pc = "walk" \/ pc = "setup_paging") => ~heap_initialized

C5_Witness == pc = "rest" /\ heap_initialized /\ paging_done /\ gdt_done

\* the level the walk starts with
RootLevel == IF cr4_l5 THEN 5 ELSE 4

\* the tables reachable from table t, visited at the given level, through
\* present entries that are not huge pages, at levels above 1
RECURSIVE Reach(_, _, _)
Reach(m, t, level) ==
    {t} \cup
    IF level > 1
    THEN UNION {Reach(m, paging_pointer(m[t][i]), level - 1) :
                   i \in {j \in 0..(EntriesPerTable - 1) :
                             PRESENT \in m[t][j] /\ HUGE_PAGE \notin m[t][j]}}
    ELSE {}

\* C6: after the walk every present entry of every table reachable from the
\* root through present non-huge entries has USER_ACCESSIBLE set.
C6_PresentUserAccessible ==
    paging_done =>
        \A t \in Reach(mem, Cr3, RootLevel) : \A i \in 0..(EntriesPerTable - 1) :
            PRESENT \in mem[t][i] => USER_ACCESSIBLE \in mem[t][i]

C6_Witness ==
    /\ paging_done
    /\ \E t \in Reach(mem, Cr3, RootLevel) \ {Cr3} :
       \E i \in 0..(EntriesPerTable - 1) :
          /\ PRESENT \in mem0[t][i]
          /\ USER_ACCESSIBLE \notin mem0[t][i]
          /\ USER_ACCESSIBLE \in mem[t][i]

\* C7: every entry differs from its value before the walk at most in the
\* USER_ACCESSIBLE bit, also when a table is reached more than once.
C7_OnlyUserBitChanges ==
    \A t \in Tables : \A i \in 0..(EntriesPerTable - 1) :
        mem[t][i] \ {USER_ACCESSIBLE} = mem0[t][i] \ {USER_ACCESSIBLE}

C7_Witness ==
    /\ paging_done
    /\ revisited
    /\ \E t \in Tables : \E i \in 0..(EntriesPerTable - 1) :
          /\ NO_EXECUTE \in mem0[t][i]
          /\ mem[t][i] # mem0[t][i]

\* C8: an entry whose present bit is clear is never written and its frame is
\* never followed as a child table.
C8_AbsentUntouched ==
    \A t \in Tables : \A i \in 0..(EntriesPerTable - 1) :
        PRESENT \notin mem0[t][i] =>
            /\ mem[t][i] = mem0[t][i]
            /\ <<t, i>> \notin derefd

\* C9 as stated: write protection is off during the walk and every write, and
\* after the walk CR0.WRITE_PROTECT has the value it had on entry.
C9_WriteProtectRestored ==
    /\ pc = "walk" => "WRITE_PROTECT" \notin cr0
    /\ ~wrote_protected
    /\ paging_done => cr0 = cr0_entry

\* C9 as amended: write protection is off during the walk and every write,
\* and after the walk CR0.WRITE_PROTECT is set, whatever its value on entry;
\* the other CR0 flags are as on entry.
C9_WriteProtectSet ==
    /\ pc = "walk" => "WRITE_PROTECT" \notin cr0
    /\ ~wrote_protected
    /\ paging_done =>
          /\ "WRITE_PROTECT" \in cr0
          /\ cr0 \ {"WRITE_PROTECT"} = cr0_entry \ {"WRITE_PROTECT"}

C9_Witness ==
    /\ paging_done
    /\ "WRITE_PROTECT" \notin cr0_entry
    /\ mem # mem0

\* C10: allocate returns AllocError or a range whose start address is a
\* multiple of the requested alignment, the zero-size path included.
C10_Aligned ==
    (result.op = "allocate" /\ result.ok) =>
        result.ptr % result.layout.align = 0

C10_Witness ==
    /\ result.op = "allocate"
    /\ result.ok
    /\ result.layout.size > 0
    /\ result.layout.align = 64
    /\ result.ptr > heap.bottom
    /\ Len(heap.holes) = 2

\* the heap has been given its memory
Initialized == heap.size > 0

\* C11 as stated: every range returned by a successful allocate lies inside
\* [heap.bottom, heap.bottom + heap.size) and has the requested length, a
\* zero-size request included.
C11_InsideHeap ==
    (result.op = "allocate" /\ result.ok /\ Initialized) =>
        /\ result.len = result.layout.size
        /\ heap.bottom <= result.ptr
        /\ result.ptr + result.len <= heap.bottom + heap.size

\* C11 as amended: a successful allocate of a non-zero size returns a range
\* of the requested length inside the heap; a zero-size request returns the
\* zero-length range at the address equal to the alignment, which need not be
\* an address of the heap.
C11_NonZeroInsideHeap ==
    (result.op = "allocate" /\ result.ok) =>
        /\ result.len = result.layout.size
        /\ IF result.layout.size = 0
           THEN result.ptr = result.layout.align
           ELSE /\ Initialized
                /\ heap.bottom <= result.ptr
                /\ result.ptr + result.len <= heap.bottom + heap.size

C11_Witness ==
    /\ result.op = "allocate"
    /\ result.ok
    /\ result.layout.size = 1
    /\ result.ptr > heap.bottom
    /\ \E a \in live : a.layout.size = 0 /\ a.ptr < heap.bottom

C13_ZeroSizeNoEffect ==
    [][/\ (result'.op = "allocate" /\ result'.layout.size = 0) =>
             /\ result'.ok
             /\ result'.ptr # 0
             /\ result'.len = 0
             /\ heap' = heap
       /\ (result'.op = "deallocate" /\ result'.layout.size = 0) =>
             heap' = heap]_vars

C13_Witness ==
    /\ result.op = "deallocate"
    /\ result.layout.size = 0
    /\ Initialized
    /\ heap.holes = <<>>
    /\ \E a \in live : a.layout.size = 0

RECURSIVE FreeBytes(_)
FreeBytes(holes) ==
    IF holes = <<>> THEN 0 ELSE holes[1].size + FreeBytes(Tail(holes))

RECURSIVE RequestedBytes(_)
RequestedBytes(l) ==
    IF l = {} THEN 0
    ELSE LET a == CHOOSE x \in l : TRUE
         IN  a.layout.size + RequestedBytes(l \ {a})

RECURSIVE ReservedBytes(_)
ReservedBytes(l) ==
    IF l = {} THEN 0
    ELSE LET a == CHOOSE x \in l : TRUE
         IN  (IF a.layout.size = 0 THEN 0 ELSE HoleSize(a.layout.size))
             + ReservedBytes(l \ {a})

C17_RejectedBeforeInit ==
    (~Initialized /\ result.op = "allocate") => ~result.ok

\* C17 as amended: on an allocator that was never initialized every allocate
\* of a non-zero size returns AllocError and no address of memory is handed
\* out; a zero-size request returns Ok with the zero-length range at the
\* address equal to the alignment.
C17_NonZeroRejectedBeforeInit ==
    ~Initialized =>
        /\ Occupying(live) = {}
        /\ result.op = "allocate" =>
              IF result.layout.size = 0
              THEN result.ok /\ result.len = 0
                   /\ result.ptr = result.layout.align
              ELSE ~result.ok

C17_Witness ==
    /\ ~Initialized
    /\ result.op = "allocate"
    /\ ~result.ok
    /\ result.layout.size = 2048
    /\ \E a \in live : a.layout.size = 0

\* C15: at most one call at a time works on the heap, a call holds the lock
\* from its first access to its last, and what a call writes is computed from
\* the heap as it is at that moment, so the calls take effect one after another.
C15_MutualExclusion ==
    /\ Cardinality({p \in Procs : tpc[p] \in InCritical}) <= 1
    /\ \A p \in Procs : tpc[p] \in InCritical <=> lock = p
    /\ \A p \in Procs : tpc[p] = "cs_write" => tsnap[p] = heap

C15_Witness ==
    /\ tpc["t2"] = "cs_write"
    /\ tpc["t1"] = "lock"
    /\ tpc["irq"] = "lock"
    /\ treq["t2"].op = "deallocate"
    /\ treq["t1"].op = "allocate"

\* C16: the interrupt handler never waits for the lock while the thread it
\* interrupted holds it.
C16_NoSpinOnOwnCore == ~(tpc["irq"] = "lock" /\ lock = "t1")

\* C18: the cursor of the bump allocator decreases only at a step at which
\* the live count becomes zero, and then it is heap_start; the number of live
\* allocations never goes below zero.
C18_BumpCursor ==
    /\ [][bump'.next < bump.next =>
             (bump'.allocations = 0 /\ bump'.next = bump'.heap_start)]_vars
    /\ [](bump_live >= 0)

\* the boot record describes no usable memory: no source is present, or the
\* map of the source that start() takes has no entry
NoUsableMemory ==
    \/ tags = {}
    \/ SelectSource # "none" /\ Len(maps[SelectSource]) = 0

BootHalted == pc \in {"panic", "halt"}

\* C19: when no memory-map source is present, or the chosen map is empty, boot
\* panics at that point and never proceeds: the GDT is never set up, the page
\* tables are never walked, the heap is never initialized, and once in the
\* panic handler the boot stays there.
C19_NoMemoryIsFatal ==
    /\ [](NoUsableMemory =>
             ~gdt_done /\ ~paging_done /\ ~heap_initialized /\ ~Discovered)
    /\ [][pc = "select" /\ tags = {} =>
             pc' = "panic" /\ panic_msg' = "No memory information available!"]_vars
    /\ [][pc = "first" /\ Len(maps[source]) = 0 => pc' = "panic"]_vars
    /\ [][BootHalted => BootHalted']_vars

C19_Witness ==
    /\ pc = "halt"
    /\ tags = {}
    /\ panic_msg = "No memory information available!"
    /\ multiboot2_magic = MAGIC

\* C20: the magic is compared with the Multiboot2 signature before the boot
\* information is loaded or any tag is read; on a mismatch boot panics, no
\* source is ever chosen or consulted and no memory region is produced.
C20_MagicCheckedFirst ==
    /\ [](pc # "start" /\ multiboot2_magic # MAGIC =>
             /\ pc \in {"check_magic", "panic", "halt"}
             /\ source = "none" /\ consulted = {} /\ exit_calls = 0
             /\ heap_area = 0 /\ heap_start = 0 /\ heap_end = 0
             /\ ~Discovered)
    /\ [][pc' = "load" => pc = "check_magic" /\ multiboot2_magic = MAGIC]_vars
    /\ [][pc = "check_magic" /\ multiboot2_magic # MAGIC =>
             pc' = "panic" /\ panic_msg' = "Invalid Multiboot2 magic number!"]_vars

C20_Witness ==
    /\ pc = "halt"
    /\ multiboot2_magic # MAGIC
    /\ panic_msg = "Invalid Multiboot2 magic number!"
    /\ tags = SourceSet

\* C21: from the first instruction of start() until the interrupts::enable()
\* call of the bring-up the interrupt flag is off: it is off during memory
\* discovery, GDT setup, the page-table walk and heap initialization, and the
\* only step that turns it on is the one that ends the bring-up.
C21_InterruptsOffDuringBoot ==
    /\ [](pc \notin {"start", "done"} => ~interrupts)
    /\ [][(~interrupts /\ interrupts') => (pc = "rest" /\ pc' = "done")]_vars
    /\ []((gdt_done \/ paging_done \/ heap_initialized) /\ pc # "done" =>
             ~interrupts)

C21_Witness ==
    /\ pc = "walk"
    /\ ~interrupts
    /\ Len(stack) = 2
    /\ gdt_done
    /\ source = "efi_bs"

\* C22: the conversion returns Ok(ok_f(code, val)) when is_ok_f(code, val) is
\* true and Err(err_f(code, val)) when it is false, and applies exactly one of
\* ok_f and err_f.
C22_ConvertFollowsIsOk ==
    conv.result # NoResult =>
        /\ Cardinality(conv.result.applied) = 1
        /\ IF IsOkF(conv.is_ok_f, conv.code, conv.val)
           THEN /\ conv.result.tag = "Ok"
                /\ conv.result.value = OkF(conv.ok_f, conv.code, conv.val)
                /\ conv.result.applied = {"ok_f"}
           ELSE /\ conv.result.tag = "Err"
                /\ conv.result.value = ErrF(conv.err_f, conv.code, conv.val)
                /\ conv.result.applied = {"err_f"}

\* the cursor of t is on the last row and print_char(c) moves it down a row
LeavesLastRow(t, c, drawn) ==
    /\ t.y = t.rows - 1
    /\ c = NEWLINE \/ (drawn /\ t.x = t.columns - 1)

\* C25: for a Terminal with at least one column and one row, the cursor is
\* inside the screen after every print_char call (x < columns, y < rows); a
\* call that would move the cursor below the last row scrolls the screen by
\* one character row and leaves the cursor on the last row.
C25_CursorInsideScreen ==
    /\ []((term.columns >= 1 /\ term.rows >= 1) =>
             (term.x < term.columns /\ term.y < term.rows /\ ~term.panicked))
    /\ [][(/\ term.columns >= 1
           /\ term.rows >= 1
           /\ term_out'.op = "print_char"
           /\ \E drawn \in BOOLEAN :
                 /\ term_out'.c # NEWLINE => drawn = term_out'.drawn
                 /\ LeavesLastRow(term, term_out'.c, drawn)) =>
             (/\ term_out'.scroll = CHAR_HEIGHT
              /\ term'.y = term.rows - 1
              /\ term'.x = 0)]_vars

C25_Witness ==
    /\ term_out.op = "print_char"
    /\ term_out.c # NEWLINE
    /\ term_out.scroll = CHAR_HEIGHT
    /\ term.columns >= 2
    /\ term.rows >= 2
    /\ term.y = term.rows - 1
    /\ term.x = 0

\* C23: the walk terminates for every table content, tables that point to
\* themselves or to an ancestor included: the calls in progress are never more
\* than the level the walk starts with, the call at depth k works at level
\* RootLevel - k + 1 >= 1, a call is entered only from a level above 1 through
\* an entry that is not a huge page, and only the indices of a table are read
\* or written.
C23_WalkTerminates ==
    /\ [](pc = "walk" =>
             /\ Len(stack) <= RootLevel
             /\ \A k \in 1..Len(stack) :
                   /\ stack[k].level = RootLevel - k + 1
                   /\ stack[k].level >= 1
                   /\ stack[k].i \in 0..EntriesPerTable)
    /\ [][Len(stack') > Len(stack) /\ pc = "walk" =>
             LET top == stack[Len(stack)]
                 entry == mem[top.map][top.i]
             IN  /\ top.level > 1
                 /\ top.i \in 0..(EntriesPerTable - 1)
                 /\ HUGE_PAGE \notin entry
                 /\ stack'[Len(stack')].level = top.level - 1
                 /\ stack'[Len(stack')].map = paging_pointer(entry)]_vars
    /\ [][mem' # mem =>
             /\ pc = "walk"
             /\ stack[Len(stack)].i \in 0..(EntriesPerTable - 1)
             /\ \A t \in Tables : \A i \in 0..(EntriesPerTable - 1) :
                   mem'[t][i] # mem[t][i] =>
                       (t = stack[Len(stack)].map /\ i = stack[Len(stack)].i)]_vars
    /\ (pc = "walk" ~> paging_done)

C23_Witness ==
    /\ pc = "walk"
    /\ cr4_l5
    /\ Len(stack) = RootLevel
    /\ revisited
    /\ stack[RootLevel].map = Cr3

\* C24: no step that needs the kernel heap (formatted log or panic message,
\* format!, to_string, Box::new, registration of the serial port or the
\* terminal with the logger) runs before kernel::allocator().init has
\* completed, and init is called exactly once per boot: never twice, and once
\* before the bring-up goes on.
C24_NoAllocationBeforeHeap ==
    /\ ~early_alloc
    /\ init_calls <= 1
    /\ heap_initialized <=> init_calls = 1
    /\ pc \in {"rest", "done"} => init_calls = 1
    /\ (pc \in {"panic", "halt"} /\ Formatted(panic_msg)) => init_calls = 1

C24_Witness ==
    /\ pc = "halt"
    /\ Formatted(panic_msg)
    /\ init_calls = 1
    /\ ~early_alloc

====
